---- MODULE Spec2Model ----
(***************************************************************************)
(* Research session orchestrator of Reassist: the useResearch hook         *)
(* (hooks/use-research.ts, the version that calls /api/research), the      *)
(* route handler POST of app/api/research/route.ts with its report         *)
(* normalisation, and the persistence calls of lib/database.ts.            *)
(***************************************************************************)
EXTENDS Integers, Sequences, FiniteSets, TLC

(***************************************************************************)
(* JavaScript values.  A value is a record with a tag t; the payload field *)
(* has a different name for each tag.                                      *)
(*   undef, null            undefined and null                             *)
(*   num                    a number; qualityScore is kept in hundredths   *)
(*   str                    a string literal                               *)
(*   tmpl                   a template string: pre followed by n              *)
(*   text                   the first len characters of a provider text    *)
(*   arr, obj               an array and an object                         *)
(***************************************************************************)
JUndef == [t |-> "undef"]
JNull == [t |-> "null"]
JNum(n) == [t |-> "num", num |-> n]
JStr(s) == [t |-> "str", str |-> s]
JTmpl(p, n) == [t |-> "tmpl", pre |-> p, n |-> n]
JText(x, n) == IF n = 0 THEN [t |-> "str", str |-> ""] ELSE [t |-> "text", text |-> x, len |-> n]
JArr(a) == [t |-> "arr", arr |-> a]
JObj(o) == [t |-> "obj", obj |-> o]

\* JavaScript truthiness, as used by the || defaulting of the code.
Truthy(v) ==
    CASE v.t = "undef" -> FALSE
      [] v.t = "null" -> FALSE
      [] v.t = "num" -> v.num # 0
      [] v.t = "str" -> v.str # ""
      [] v.t = "text" -> v.len > 0
      [] OTHER -> TRUE

\* a || b
Or(a, b) == IF Truthy(a) THEN a ELSE b

\* v.k : reading a property of null or undefined raises a TypeError
PropThrows(v) == v.t \in {"undef", "null"}

\* v.k for a value on which the read does not raise
Prop(v, k) == IF v.t = "obj" /\ k \in DOMAIN v.obj THEN v.obj[k] ELSE JUndef

\* v?.k
OptProp(v, k) == IF PropThrows(v) THEN JUndef ELSE Prop(v, k)

\* (list).map(cb) raises when list (already defaulted by || [], hence truthy)
\* is not an array, or when cb reads a property of a null element.
MapThrows(list) ==
    \/ list.t # "arr"
    \/ \E i \in 1..Len(list.arr) : PropThrows(list.arr[i])

(***************************************************************************)
(* Provider texts.  A text is pre ++ body ++ post: pre and post are        *)
(* sequences of characters (code fence markers, language tags, white       *)
(* space), body is the content proper: prose, truncated JSON or a JSON     *)
(* document (val is its parsed value), of len characters, which neither    *)
(* starts nor ends with white space or a backtick.  A text with an empty   *)
(* body keeps all its characters in pre.                                   *)
(***************************************************************************)
NoBody == [kind |-> "none", len |-> 0, val |-> JUndef]
Text(pre, body, post) == [pre |-> pre, body |-> body, post |-> post]

IsSpace(c) == c \in {" ", "\n"}

RECURSIVE TrimStartSeq(_)
TrimStartSeq(s) ==
    IF s # <<>> /\ IsSpace(Head(s)) THEN TrimStartSeq(Tail(s)) ELSE s

RECURSIVE TrimEndSeq(_)
TrimEndSeq(s) ==
    IF s # <<>> /\ IsSpace(s[Len(s)]) THEN TrimEndSeq(SubSeq(s, 1, Len(s) - 1)) ELSE s

\* String.prototype.trim
Trim(x) ==
    IF x.body.kind = "none"
    THEN Text(TrimEndSeq(TrimStartSeq(x.pre)), x.body, <<>>)
    ELSE Text(TrimStartSeq(x.pre), x.body, TrimEndSeq(x.post))

\* String.prototype.startsWith, for a marker made of fence and tag characters
StartsWith(x, m) == Len(x.pre) >= Len(m) /\ SubSeq(x.pre, 1, Len(m)) = m

\* String.prototype.slice(n), applied where StartsWith held for n characters
SliceFrom(x, n) == Text(SubSeq(x.pre, n + 1, Len(x.pre)), x.body, x.post)

\* the characters after the body (all of them when there is no body)
Tailing(x) == IF x.body.kind = "none" THEN x.pre ELSE x.post

EndsWith(x, m) ==
    LET s == Tailing(x)
    IN Len(s) >= Len(m) /\ SubSeq(s, Len(s) - Len(m) + 1, Len(s)) = m

\* String.prototype.slice(0, -n), applied where EndsWith held for n characters
SliceTo(x, n) ==
    IF x.body.kind = "none"
    THEN Text(SubSeq(x.pre, 1, Len(x.pre) - n), x.body, <<>>)
    ELSE Text(x.pre, x.body, SubSeq(x.post, 1, Len(x.post) - n))

TextLen(x) == Len(x.pre) + x.body.len + Len(x.post)

\* the backtick character
Bq == "bq"

Fence == <<Bq, Bq, Bq>>
FenceJson == <<Bq, Bq, Bq, "j", "s", "o", "n">>

\* the cleaning without the case of the json tag
CleanResponse_NoJsonTag(raw) ==
    LET a == Trim(raw)
        c == IF StartsWith(a, Fence) THEN SliceFrom(a, 3) ELSE a
        d == IF EndsWith(c, Fence) THEN SliceTo(c, 3) ELSE c
    IN Trim(d)

\* route.ts 174-185: remove markdown code blocks if present
CleanResponse(raw) ==
    LET a == Trim(raw)
        b == IF StartsWith(a, FenceJson) THEN SliceFrom(a, 7) ELSE a
        c == IF StartsWith(b, Fence) THEN SliceFrom(b, 3) ELSE b
        d == IF EndsWith(c, Fence) THEN SliceTo(c, 3) ELSE c
    IN Trim(d)

\* JSON.parse raises unless the string is one JSON document (surrounding
\* white space is allowed by JSON.parse)
ParseThrows(x) ==
    \/ x.body.kind # "json"
    \/ TrimStartSeq(x.pre) # <<>>
    \/ TrimEndSeq(x.post) # <<>>

\* String.prototype.substring(0, n)
Substring(x, n) == JText(x, IF TextLen(x) < n THEN TextLen(x) ELSE n)

(***************************************************************************)
(* The route handler: POST of app/api/research/route.ts.                   *)
(***************************************************************************)
EmptyArr == JArr(<<>>)

\* the fallback without the cut of the summary at 500 characters
FallbackData_NoCut(x) ==
    JObj([title |-> JStr("Research Findings"),
          summary |-> JText(x, TextLen(x)),
          findings |-> JArr(<<JObj([heading |-> JStr("Analysis"),
                                    content |-> JText(x, TextLen(x))])>>),
          sources |-> EmptyArr,
          keyStatistics |-> EmptyArr,
          knowledgeGaps |-> EmptyArr,
          followUpQuestions |-> EmptyArr,
          qualityScore |-> JNum(70)])

\* route.ts 193-209: the structured response built from raw text when
\* JSON.parse raised (researchMetadata, which nothing reads back, is left out)
FallbackData(x) ==
    JObj([title |-> JStr("Research Findings"),
          summary |-> Substring(x, 500),
          findings |-> JArr(<<JObj([heading |-> JStr("Analysis"),
                                    content |-> JText(x, TextLen(x))])>>),
          sources |-> EmptyArr,
          keyStatistics |-> EmptyArr,
          knowledgeGaps |-> EmptyArr,
          followUpQuestions |-> EmptyArr,
          qualityScore |-> JNum(70)])

\* route.ts 188-210: researchData after the try/catch around JSON.parse
ResearchData(x) == IF ParseThrows(x) THEN FallbackData(x) ELSE x.body.val

\* route.ts 213-250 raises a TypeError: researchData.title on null, or .map
\* on a sources or keyStatistics value that is not an array of non-null values
NormalizeThrows(rd) ==
    \/ PropThrows(rd)
    \/ MapThrows(Or(Prop(rd, "sources"), EmptyArr))
    \/ MapThrows(Or(Prop(rd, "keyStatistics"), EmptyArr))

\* the sources map keeping an id the provider supplied
NormalizeSource_KeepId(source, n) ==
    JObj([id |-> Or(Prop(source, "id"), JTmpl("source-", n)),
          title |-> Or(Prop(source, "title"), JTmpl("Source ", n)),
          url |-> Or(Prop(source, "url"), JStr("#")),
          description |-> Or(Prop(source, "description"), JStr("")),
          reliability |-> Or(Prop(source, "reliability"), JStr("medium")),
          type |-> Or(Prop(source, "type"), JStr("news"))])

\* the sources map turning the type news into article
NormalizeSource_NewsToArticle(source, n) ==
    JObj([id |-> JTmpl("source-", n),
          title |-> Or(Prop(source, "title"), JTmpl("Source ", n)),
          url |-> Or(Prop(source, "url"), JStr("#")),
          description |-> Or(Prop(source, "description"), JStr("")),
          reliability |-> Or(Prop(source, "reliability"), JStr("medium")),
          type |-> IF Prop(source, "type") = JStr("news") THEN JStr("article")
                   ELSE Or(Prop(source, "type"), JStr("news"))])

\* route.ts 224-231: one element of the sources map, index counted from 1
NormalizeSource(source, n) ==
    JObj([id |-> JTmpl("source-", n),
          title |-> Or(Prop(source, "title"), JTmpl("Source ", n)),
          url |-> Or(Prop(source, "url"), JStr("#")),
          description |-> Or(Prop(source, "description"), JStr("")),
          reliability |-> Or(Prop(source, "reliability"), JStr("medium")),
          type |-> Or(Prop(source, "type"), JStr("news"))])

\* route.ts 232-238: one element of the keyStatistics map
NormalizeStat(stat) ==
    JObj([value |-> Or(Prop(stat, "value"), JStr("")),
          context |-> Or(Prop(stat, "context"), JStr(""))])

\* route.ts 213-250: ensure all required fields exist
NormalizeReport(rd) ==
    LET srcs == Or(Prop(rd, "sources"), EmptyArr).arr
        stats == Or(Prop(rd, "keyStatistics"), EmptyArr).arr
    IN JObj([id |-> JStr("uuid"),
             title |-> Or(Prop(rd, "title"), JStr("Research Report")),
             summary |-> Or(Prop(rd, "summary"), JStr("")),
             findings |-> Or(Prop(rd, "findings"), EmptyArr),
             sources |-> JArr([i \in 1..Len(srcs) |-> NormalizeSource(srcs[i], i)]),
             keyStatistics |-> JArr([i \in 1..Len(stats) |-> NormalizeStat(stats[i])]),
             knowledgeGaps |-> Or(Prop(rd, "knowledgeGaps"), EmptyArr),
             followUpQuestions |-> Or(Prop(rd, "followUpQuestions"), EmptyArr),
             qualityScore |-> Or(Prop(rd, "qualityScore"), JNum(75)),
             generatedAt |-> JStr("now")])

\* an HTTP response of the route: status and JSON body
Response(status, body) == [status |-> status, body |-> body]

\* A provider outcome: generateContent raised (non-success status, transport
\* failure), or it returned a text.
ProviderFails == [kind |-> "error", text |-> Text(<<>>, NoBody, <<>>)]
ProviderReturns(x) == [kind |-> "text", text |-> x]

\* route.ts 107: !question || typeof question !== 'string'
QuestionRejected(question) == ~Truthy(question) \/ question.t # "str"

\* route.ts 103-264: the response of POST for a request body question, with
\* or without GEMINI_API_KEY, and the outcome the provider call has if made
POST(question, apiKey, outcome) ==
    IF QuestionRejected(question)
    THEN Response(400, JObj([error |-> JStr("Question is required")]))
    ELSE IF ~apiKey
    THEN Response(503, JObj([error |-> JStr("API not configured"),
                             message |-> JStr("Please add GEMINI_API_KEY to your .env.local file")]))
    ELSE IF outcome.kind = "error"
    THEN Response(500, JObj([error |-> JStr("Research failed"),
                             message |-> JStr("provider error")]))
    ELSE IF TextLen(outcome.text) = 0
    THEN Response(500, JObj([error |-> JStr("Research failed"),
                             message |-> JStr("No response from Gemini")]))
    ELSE LET rd == ResearchData(CleanResponse(outcome.text))
         IN IF NormalizeThrows(rd)
            THEN Response(500, JObj([error |-> JStr("Research failed"),
                                     message |-> JStr("TypeError")]))
            ELSE Response(200, JObj([success |-> [t |-> "bool", bool |-> TRUE],
                                     report |-> NormalizeReport(rd)]))

\* the credential check made after the provider call
ProviderCalls_NoKeyCheck(question, apiKey) ==
    IF QuestionRejected(question) THEN 0 ELSE 1

\* a second attempt made for every request
ProviderCalls_Retry(question, apiKey) ==
    IF QuestionRejected(question) \/ ~apiKey THEN 0 ELSE 2

\* route.ts 114-165: the provider is called once when the request passes the
\* question check and the credential check, and not otherwise
ProviderCalls(question, apiKey) ==
    IF QuestionRejected(question) \/ ~apiKey THEN 0 ELSE 1

\* route.ts 128-132: modelConfig
modelConfig ==
    [quick |-> [model |-> JStr("gemini-2.0-flash"), maxTokens |-> JNum(4000)],
     standard |-> [model |-> JStr("gemini-2.0-flash"), maxTokens |-> JNum(8000)],
     comprehensive |-> [model |-> JStr("gemini-2.0-flash"), maxTokens |-> JNum(16000)]]

\* route.ts 19-35: depthConfigs of getResearchPrompt
depthConfigs ==
    [quick |-> [findings |-> JStr("4-6 key findings with 2-3 paragraphs each"),
                sources |-> JStr("6-8 diverse sources")],
     standard |-> [findings |-> JStr("6-10 detailed findings with 3-5 paragraphs each"),
                   sources |-> JStr("10-15 diverse sources from multiple categories")],
     comprehensive |-> [findings |-> JStr("10-15 extensive findings with 4-6 paragraphs each"),
                        sources |-> JStr("15-25 comprehensive sources across all categories")]]

\* the property key a value is converted to
PropertyKey(v) ==
    CASE v.t = "str" -> v.str
      [] v.t = "undef" -> "undefined"
      [] v.t = "null" -> "null"
      [] OTHER -> "number"

\* the properties every object literal inherits from Object.prototype
ObjectPrototypeKeys ==
    {"constructor", "toString", "valueOf", "hasOwnProperty", "isPrototypeOf",
     "propertyIsEnumerable", "toLocaleString", "__proto__"}

\* route.ts 135 and 37: table[key] || table.standard.  An own property of
\* the table is the parameters of a depth; an inherited one is a function or
\* an object, truthy, on which the parameters read as undefined.
DepthLookup(table, key) ==
    IF PropertyKey(key) \in DOMAIN table THEN table[PropertyKey(key)]
    ELSE IF PropertyKey(key) \in ObjectPrototypeKeys
    THEN [f \in DOMAIN table.standard |-> JUndef]
    ELSE table.standard

\* route.ts 105: const { question, searchDepth = 'standard' }
DepthOfBody(searchDepth) == IF searchDepth = JUndef THEN JStr("standard") ELSE searchDepth

\* route.ts 127-159: the generation parameters chosen for a request body
Parameters(searchDepth) ==
    [model |-> DepthLookup(modelConfig, DepthOfBody(searchDepth)).model,
     maxOutputTokens |-> DepthLookup(modelConfig, DepthOfBody(searchDepth)).maxTokens,
     findings |-> DepthLookup(depthConfigs, DepthOfBody(searchDepth)).findings,
     sources |-> DepthLookup(depthConfigs, DepthOfBody(searchDepth)).sources]

(***************************************************************************)
(* The response mapping of useResearch.startResearch (use-research.ts).    *)
(***************************************************************************)
\* use-research.ts 391: the list the sections are mapped from
SectionList(rep) == Or(Or(Prop(rep, "findings"), Prop(rep, "sections")), EmptyArr)

\* use-research.ts 392-396
MapSection(section, idx) ==
    [id |-> JTmpl("section-", idx),
     title |-> Or(Or(Prop(section, "heading"), Prop(section, "title")), JTmpl("Section ", idx)),
     content |-> Prop(section, "content"),
     citations |-> Or(Prop(section, "citations"), EmptyArr)]

\* use-research.ts 398-403
MapSource(s, idx) ==
    [id |-> IF Prop(s, "id").t = "num" THEN Prop(s, "id") ELSE JNum(idx),
     title |-> Prop(s, "title"),
     url |-> Prop(s, "url"),
     publishedDate |-> Or(Prop(s, "publishedDate"), JStr("today")),
     author |-> Prop(s, "author"),
     type |-> Or(Prop(s, "type"), JStr("article"))]

\* use-research.ts 387-408 raises: .map on a list that is not an array, or a
\* property read on a null element
MapReportThrows(rep) ==
    \/ MapThrows(SectionList(rep))
    \/ MapThrows(Or(Prop(rep, "sources"), EmptyArr))

\* the report with the first section skipped
MapReport_SkipFirst(rep, questionText) ==
    LET secs == SectionList(rep).arr
        srcs == Or(Prop(rep, "sources"), EmptyArr).arr
    IN [id |-> Or(Prop(rep, "id"), JStr("generated")),
        question |-> questionText,
        executiveSummary |-> Or(Or(Prop(rep, "summary"), Prop(rep, "executiveSummary")), JStr("")),
        sections |-> [i \in 1..(Len(secs) - 1) |-> MapSection(secs[i + 1], i)],
        sources |-> [i \in 1..Len(srcs) |-> MapSource(srcs[i], i)],
        knowledgeGaps |-> Or(Prop(rep, "knowledgeGaps"), EmptyArr),
        researchDuration |-> 30]

\* use-research.ts 387-408: the ResearchReport built from data.report
MapReport(rep, questionText) ==
    LET secs == SectionList(rep).arr
        srcs == Or(Prop(rep, "sources"), EmptyArr).arr
    IN [id |-> Or(Prop(rep, "id"), JStr("generated")),
        question |-> questionText,
        executiveSummary |-> Or(Or(Prop(rep, "summary"), Prop(rep, "executiveSummary")), JStr("")),
        sections |-> [i \in 1..Len(secs) |-> MapSection(secs[i], i)],
        sources |-> [i \in 1..Len(srcs) |-> MapSource(srcs[i], i)],
        knowledgeGaps |-> Or(Prop(rep, "knowledgeGaps"), EmptyArr),
        researchDuration |-> 30]

\* What the try block of startResearch makes of a fetch result (use-research.ts
\* 366-408, 431-435): fetch rejected, or resolved with a response.  ok is
\* whether a report was built; message is the Error message otherwise.
NoReport == [id |-> JUndef]
FetchRejected == [rejected |-> TRUE, response |-> Response(0, JUndef)]
FetchResolved(r) == [rejected |-> FALSE, response |-> r]

ResponseOk(r) == r.status >= 200 /\ r.status <= 299

TryOutcome(f, questionText) ==
    IF f.rejected
    THEN [ok |-> FALSE, message |-> JStr("Failed to fetch"), report |-> NoReport]
    ELSE IF ~ResponseOk(f.response)
    THEN [ok |-> FALSE,
          message |-> Or(OptProp(f.response.body, "message"), JTmpl("API error: ", f.response.status)),
          report |-> NoReport]
    ELSE IF PropThrows(f.response.body)
    THEN [ok |-> FALSE, message |-> JStr("TypeError"), report |-> NoReport]
    ELSE IF ~Truthy(Prop(f.response.body, "success")) \/ ~Truthy(Prop(f.response.body, "report"))
    THEN [ok |-> FALSE, message |-> JStr("Invalid response from research API"), report |-> NoReport]
    ELSE IF MapReportThrows(Prop(f.response.body, "report"))
    THEN [ok |-> FALSE, message |-> JStr("TypeError"), report |-> NoReport]
    ELSE [ok |-> TRUE, message |-> JUndef,
          report |-> MapReport(Prop(f.response.body, "report"), questionText)]

(***************************************************************************)
(* Bounds and inputs.                                                      *)
(***************************************************************************)
\* number of startResearch / submitFollowUp calls in a behaviour
MaxCalls == 2

\* number of times one interval fires before its remaining firings are ignored
MaxTicks == 1

Calls == 1..MaxCalls

\* the questions asked: the first research is about Topic A
Questions == {"Topic A", "Topic B"}

\* questions that are empty or consist of white space only
BlankQuestions == {"", " "}

\* String.prototype.trim of a question leaves nothing
IsBlank(questionText) == questionText \in BlankQuestions

\* JSON documents a provider may answer with
GoodJson ==
    JObj([title |-> JStr("T"), summary |-> JStr("S"),
          findings |-> JArr(<<JObj([heading |-> JStr("H1"), content |-> JStr("C1"),
                                    citations |-> JArr(<<JNum(1), JStr("x"), JNum(9)>>)]),
                              JObj([heading |-> JStr("H2"), content |-> JStr("C2")])>>),
          sources |-> JArr(<<JObj([id |-> JNum(7), title |-> JStr("S1")]),
                             JObj([id |-> JNum(7), url |-> JStr("u2")]),
                             JObj([id |-> JStr("x"), type |-> JStr("academic")])>>),
          qualityScore |-> JNum(85)])
SourcesNotList == JObj([title |-> JStr("T"), sources |-> JStr("none")])
FindingsNotList == JObj([title |-> JStr("T"), findings |-> JStr("none")])

JsonBody(v) == [kind |-> "json", len |-> 40, val |-> v]
Prose == [kind |-> "prose", len |-> 600, val |-> JUndef]
Truncated == [kind |-> "truncated", len |-> 20, val |-> JUndef]

\* provider texts of the session specification
SessionTexts ==
    {Text(<<>>, NoBody, <<>>),
     Text(<<>>, Prose, <<>>),
     Text(<<>>, Truncated, <<>>),
     Text(<<" ">>, NoBody, <<>>),
     Text(Fence \o <<"\n">>, Prose, <<"\n">> \o Fence),
     Text(FenceJson \o <<"\n">>, Truncated, <<>>),
     Text(<<>>, JsonBody(JNull), <<>>),
     Text(<<>>, JsonBody(JNum(5)), <<>>),
     Text(<<>>, JsonBody(JObj([title |-> JStr("T")])), <<>>),
     Text(<<>>, JsonBody(JObj([title |-> JStr("T"), qualityScore |-> JNum(0)])), <<>>),
     Text(<<>>, JsonBody(JObj([title |-> JStr("T"), qualityScore |-> JNum(150)])), <<>>),
     Text(<<>>, JsonBody(SourcesNotList), <<>>),
     Text(<<>>, JsonBody(FindingsNotList), <<>>),
     Text(FenceJson \o <<"\n">>, JsonBody(GoodJson), <<"\n">> \o Fence),
     Text(<<" ">> \o Fence \o <<"\n">>, JsonBody(GoodJson), <<"\n">> \o Fence \o <<"\n">>),
     Text(Fence \o <<"j", "s", "\n">>, JsonBody(GoodJson), <<"\n">> \o Fence)}

ProviderOutcomes == {ProviderFails} \cup {ProviderReturns(x) : x \in SessionTexts}

\* A behaviour is one of three scenarios.  In "single" the user starts one
\* research, and the provider and the preference store range over all their
\* outcomes.  In "progress" the user starts one research, and the interval
\* and the random source range over all theirs.  In "overlap" the user
\* starts up to MaxCalls researches, one after another or overlapping.  In
\* "route" the hook is not used: another client posts requests to the route,
\* with search depths of all kinds.
\* Outside these ranges a scenario takes the representative outcomes below.
Scenarios == {"single", "progress", "overlap", "route"}

OverlapOutcomes ==
    {ProviderFails,
     ProviderReturns(Text(FenceJson \o <<"\n">>, JsonBody(GoodJson), <<"\n">> \o Fence))}

(***************************************************************************)
(* The useResearch hook (use-research.ts 231-494).                         *)
(***************************************************************************)
VARIABLES
    phase, currentQuestion, progressUpdates, currentReport,
    conversationHistory, error, sourcesAnalyzed,  \* ResearchState
    currentQueryId,          \* useState currentQueryId, 0 for null
    progressIntervalRef,     \* the interval handle held by the ref, 0 for null
    intervals,               \* the interval handles that are live
    user,                    \* useAuth().user is non-null
    apiKey,                  \* GEMINI_API_KEY is set on the server
    scenario,                \* what the environment does in this behaviour
    preference,              \* user_preferences.default_search_depth of the user
    request,                 \* the last request another client sent to the route
    ncalls,                  \* startResearch calls made so far
    calls,                   \* the activation of each startResearch call
    dbStatus, dbReport       \* research_queries.status and research_reports

state == <<phase, currentQuestion, progressUpdates, currentReport,
           conversationHistory, error, sourcesAnalyzed>>
vars == <<phase, currentQuestion, progressUpdates, currentReport,
          conversationHistory, error, sourcesAnalyzed, currentQueryId,
          progressIntervalRef, intervals, user, apiKey, scenario, preference, request, ncalls, calls,
          dbStatus, dbReport>>

NoQuestion == [id |-> 0, text |-> ""]

\* the searchDepth values of request bodies: missing, null, the three
\* depths, other strings, a number, the name of an inherited property
DepthValues ==
    {JUndef, JNull, JStr("quick"), JStr("standard"), JStr("comprehensive"),
     JStr("deep"), JStr(""), JNum(2), JStr("constructor")}

\* no request has been sent by another client
NoRequest == [status |-> 0, searchDepth |-> JUndef]

\* use-research.ts 242-249
progressSteps ==
    <<[message |-> "Analyzing your research question...", type |-> "analyze"],
      [message |-> "Searching for relevant information...", type |-> "search"],
      [message |-> "Evaluating source credibility...", type |-> "analyze"],
      [message |-> "Cross-referencing data points...", type |-> "analyze"],
      [message |-> "Synthesizing findings...", type |-> "synthesize"],
      [message |-> "Generating comprehensive report...", type |-> "synthesize"]>>

\* use-research.ts 346: Math.floor(Math.random() * 3) + 2
RandomIncrements == {2, 3, 4}

\* what getUserPreferences may settle with: a rejection, no row, or a row
PreferenceResults == {"rejected", "none", "quick", "comprehensive"}

\* what the store may hold as the default_search_depth of the user: no row,
\* or a row with a depth other than the default
StoredPreferences == PreferenceResults \ {"rejected"}

\* the inputs of a behaviour, by scenario
Increments == IF scenario = "progress" THEN RandomIncrements ELSE {3}
Outcomes == IF scenario = "single" THEN ProviderOutcomes ELSE OverlapOutcomes
Preferences == {"rejected", preference}
TickBudget == IF scenario = "progress" THEN Len(progressSteps) ELSE MaxTicks
CallBudget ==
    CASE scenario = "overlap" -> MaxCalls
      [] scenario = "route" -> 0
      [] OTHER -> 1
AskedQuestions ==
    IF ncalls > 0 THEN Questions
    ELSE IF scenario = "single" THEN {"Topic A"} \cup BlankQuestions
    ELSE {"Topic A"}

\* The activation of one startResearch call: where it is suspended (pc), its
\* parameter and locals, the fetch result it holds (fres), what the provider
\* did for it (provider) and the text it returned (text), and, as history,
\* the operation that overtook it while its provider call had not resolved
\* (overtaken; see OvertakenByStart and OvertakenByReset).
NoFetch == [rejected |-> FALSE, response |-> Response(0, JUndef)]
NoText == Text(<<>>, NoBody, <<>>)
NotCalled ==
    [pc |-> "idle", questionText |-> "", queryId |-> 0, searchDepth |-> "standard",
     progressIndex |-> 0, sourcesCount |-> 0, fres |-> NoFetch, provider |-> "none",
     text |-> NoText, errorMessage |-> JUndef, overtaken |-> ""]

\* use-research.ts 231-239 and 256-258
Init ==
    /\ phase = "idle"
    /\ currentQuestion = NoQuestion
    /\ progressUpdates = <<>>
    /\ currentReport = NoReport
    /\ conversationHistory = <<>>
    /\ error = JNull
    /\ sourcesAnalyzed = 0
    /\ currentQueryId = 0
    /\ progressIntervalRef = 0
    /\ intervals = {}
    /\ user \in BOOLEAN
    /\ apiKey \in BOOLEAN
    /\ scenario \in Scenarios
    /\ preference \in IF scenario = "single" /\ user THEN StoredPreferences ELSE {"none"}
    /\ request = NoRequest
    /\ ncalls = 0
    /\ calls = [s \in Calls |-> NotCalled]
    /\ dbStatus = [s \in Calls |-> "none"]
    /\ dbReport = [s \in Calls |-> "none"]

\* use-research.ts 264-269: the live intervals after clearProgress()
ClearProgress(live, ref) == live \ {ref}

\* The activations after clearProgress(): showProgress of the cleared
\* interval is never called again, its closure variables are dead.
Cleared(base, ref) ==
    IF ref = 0 THEN base
    ELSE [base EXCEPT ![ref] = [@ EXCEPT !.progressIndex = 0, !.sourcesCount = 0]]

\* use-research.ts 342-358: the update showProgress passes to addProgressUpdate
ProgressUpdate(s, index, count) ==
    [id |-> <<s, index>>,
     message |-> progressSteps[index].message,
     type |-> progressSteps[index].type,
     sourcesAnalyzed |-> count]

\* use-research.ts 346: sourcesCount after step index, inc being the random draw
NextCount(index, count, inc) ==
    IF progressSteps[index].type = "analyze" THEN count + inc ELSE count

\* use-research.ts 338-372: the part of startResearch from the first
\* showProgress() to the fetch call, run by call s; base holds the
\* activations, ups the progress list and live the live intervals it runs on.
Proceed(s, base, ups, live) ==
    \E inc \in Increments :
        LET count == NextCount(1, 0, inc)
        IN /\ progressUpdates' = Append(ups, ProgressUpdate(s, 1, count))
           /\ sourcesAnalyzed' = count
           /\ progressIntervalRef' = s
           /\ intervals' = live \cup {s}
           /\ calls' = [base EXCEPT ![s] =
                           [base[s] EXCEPT !.pc = "fetch", !.progressIndex = 1,
                                           !.sourcesCount = count]]

\* the places of an activation whose provider call has not resolved
PreResolve == {"create", "updateResearching", "preferences", "fetch"}

\* history: the activations once a new startResearch has overtaken them.  A
\* call whose provider call has not resolved is marked "start"; the mark of
\* an earlier reset ends with the new session.
OvertakenByStart ==
    [s \in Calls |->
        IF calls[s].pc \in PreResolve THEN [calls[s] EXCEPT !.overtaken = "start"]
        ELSE IF calls[s].overtaken = "reset" THEN [calls[s] EXCEPT !.overtaken = ""]
        ELSE calls[s]]

\* history: the activations once reset() has overtaken them.  The call of
\* the current session is marked "reset" when the session is researching and
\* its provider call is in flight.
OvertakenByReset ==
    [s \in Calls |->
        IF calls[s].pc = "fetch" /\ phase = "researching" /\ currentQuestion.id = s
        THEN [calls[s] EXCEPT !.overtaken = "reset"]
        ELSE calls[s]]

\* startResearch with a setState that does not clear error
StartResearch_KeepError(questionText) ==
    /\ ncalls < CallBudget
    /\ LET s == ncalls + 1
           base == [Cleared(OvertakenByStart, progressIntervalRef) EXCEPT ![s] =
                       [NotCalled EXCEPT !.pc = "create", !.questionText = questionText]]
           live == ClearProgress(intervals, progressIntervalRef)
       IN /\ ncalls' = s
          /\ phase' = "researching"
          /\ currentQuestion' = [id |-> s, text |-> questionText]
          /\ currentReport' = NoReport
          /\ error' = error
          /\ IF user
             THEN /\ progressUpdates' = <<>>
                  /\ sourcesAnalyzed' = 0
                  /\ progressIntervalRef' = 0
                  /\ intervals' = live
                  /\ calls' = base
             ELSE Proceed(s, base, <<>>, live)
    /\ UNCHANGED <<conversationHistory, currentQueryId, user, apiKey, scenario, preference, request, dbStatus, dbReport>>

\* use-research.ts 298-336: startResearch up to its first await (a signed-in
\* user) or up to the fetch call (no user)
StartResearch(questionText) ==
    /\ ncalls < CallBudget
    /\ LET s == ncalls + 1
           base == [Cleared(OvertakenByStart, progressIntervalRef) EXCEPT ![s] =
                       [NotCalled EXCEPT !.pc = "create", !.questionText = questionText]]
           live == ClearProgress(intervals, progressIntervalRef)
       IN /\ ncalls' = s
          /\ phase' = "researching"
          /\ currentQuestion' = [id |-> s, text |-> questionText]
          /\ currentReport' = NoReport
          /\ error' = JNull
          /\ IF user
             THEN /\ progressUpdates' = <<>>
                  /\ sourcesAnalyzed' = 0
                  /\ progressIntervalRef' = 0
                  /\ intervals' = live
                  /\ calls' = base
             ELSE Proceed(s, base, <<>>, live)
    /\ UNCHANGED <<conversationHistory, currentQueryId, user, apiKey, scenario, preference, request, dbStatus, dbReport>>

\* use-research.ts 457-459
SubmitFollowUp(questionText) == StartResearch(questionText)

\* use-research.ts 464-468
Reset ==
    /\ intervals' = ClearProgress(intervals, progressIntervalRef)
    /\ progressIntervalRef' = 0
    /\ currentQueryId' = 0
    /\ phase' = "idle"
    /\ currentQuestion' = NoQuestion
    /\ progressUpdates' = <<>>
    /\ currentReport' = NoReport
    /\ conversationHistory' = <<>>
    /\ error' = JNull
    /\ sourcesAnalyzed' = 0
    /\ calls' = Cleared(OvertakenByReset, progressIntervalRef)
    /\ UNCHANGED <<user, apiKey, scenario, preference, request, ncalls, dbStatus, dbReport>>

\* use-research.ts 473-480
SetError(message) ==
    /\ scenario = "single"
    /\ intervals' = ClearProgress(intervals, progressIntervalRef)
    /\ progressIntervalRef' = 0
    /\ phase' = "error"
    /\ error' = JStr(message)
    /\ calls' = Cleared(calls, progressIntervalRef)
    /\ UNCHANGED <<currentQuestion, progressUpdates, currentReport, conversationHistory,
                   sourcesAnalyzed, currentQueryId, user, apiKey, scenario, preference, request, ncalls,
                   dbStatus, dbReport>>

\* use-research.ts 342-358, 364: the interval created by call t fires and
\* runs that call's showProgress
Tick(t) ==
    /\ t \in intervals
    /\ calls[t].progressIndex <= TickBudget
    /\ LET c == calls[t]
           index == c.progressIndex + 1
       IN IF c.progressIndex < Len(progressSteps)
          THEN \E inc \in Increments :
                   LET count == NextCount(index, c.sourcesCount, inc)
                   IN /\ progressUpdates' = Append(progressUpdates, ProgressUpdate(t, index, count))
                      /\ sourcesAnalyzed' = count
                      /\ calls' = [calls EXCEPT ![t] =
                                      [c EXCEPT !.progressIndex = index, !.sourcesCount = count]]
          ELSE UNCHANGED <<progressUpdates, sourcesAnalyzed, calls>>
    /\ UNCHANGED <<phase, currentQuestion, currentReport, conversationHistory, error,
                   currentQueryId, progressIntervalRef, intervals, user, apiKey, scenario, preference, request, ncalls,
                   dbStatus, dbReport>>

\* use-research.ts 323-335: createResearchQuery settles
CreateSettles(s, ok) ==
    /\ calls[s].pc = "create"
    /\ IF ok
       THEN /\ dbStatus' = [dbStatus EXCEPT ![s] = "pending"]
            /\ currentQueryId' = s
            /\ calls' = [calls EXCEPT ![s] = [@ EXCEPT !.pc = "updateResearching", !.queryId = s]]
            /\ UNCHANGED <<progressUpdates, sourcesAnalyzed, progressIntervalRef, intervals>>
       ELSE /\ Proceed(s, calls, progressUpdates, intervals)
            /\ UNCHANGED <<dbStatus, currentQueryId>>
    /\ UNCHANGED <<phase, currentQuestion, currentReport, conversationHistory, error,
                   user, apiKey, scenario, preference, request, ncalls, dbReport>>

\* use-research.ts 326: updateQueryStatus(queryId, 'researching') settles
UpdateResearchingSettles(s, ok) ==
    /\ calls[s].pc = "updateResearching"
    /\ IF ok
       THEN /\ dbStatus' = [dbStatus EXCEPT ![s] = "researching"]
            /\ calls' = [calls EXCEPT ![s] = [@ EXCEPT !.pc = "preferences"]]
            /\ UNCHANGED <<progressUpdates, sourcesAnalyzed, progressIntervalRef, intervals>>
       ELSE /\ Proceed(s, calls, progressUpdates, intervals)
            /\ UNCHANGED dbStatus
    /\ UNCHANGED <<phase, currentQuestion, currentReport, conversationHistory, error,
                   currentQueryId, user, apiKey, scenario, preference, request, ncalls, dbReport>>

\* use-research.ts 329-332
PreferredDepth(prefs, searchDepth) ==
    IF prefs \in {"rejected", "none"} THEN searchDepth ELSE prefs

\* use-research.ts 329-335: getUserPreferences settles
PreferencesSettle(s, prefs) ==
    /\ calls[s].pc = "preferences"
    /\ Proceed(s, [calls EXCEPT ![s] =
                      [@ EXCEPT !.searchDepth = PreferredDepth(prefs, calls[s].searchDepth)]],
               progressUpdates, intervals)
    /\ UNCHANGED <<phase, currentQuestion, currentReport, conversationHistory, error,
                   currentQueryId, user, apiKey, scenario, preference, request, ncalls, dbStatus, dbReport>>

\* an activation that has returned: its parameter and locals are dead (the
\* closure variables of showProgress live on with its interval)
Returned(c) ==
    [c EXCEPT !.pc = "done", !.questionText = "", !.queryId = 0,
              !.searchDepth = "standard", !.fres = NoFetch, !.provider = "none",
              !.text = NoText, !.errorMessage = JUndef,
              !.overtaken = IF c.overtaken = "reset" THEN "reset" ELSE ""]

\* the success path with the history replaced by the new entry
Complete_Replace(s, base, report) ==
    /\ phase' = "completed"
    /\ currentReport' = report
    /\ conversationHistory' = <<[id |-> s, question |-> currentQuestion, report |-> report]>>
    /\ sourcesAnalyzed' = Len(report.sources)
    /\ calls' = [base EXCEPT ![s] = Returned(@)]
    /\ UNCHANGED <<currentQuestion, progressUpdates, error>>

\* use-research.ts 415-429: the setState of the success path, by call s
Complete(s, base, report) ==
    /\ phase' = "completed"
    /\ currentReport' = report
    /\ conversationHistory' =
           Append(conversationHistory, [id |-> s, question |-> currentQuestion, report |-> report])
    /\ sourcesAnalyzed' = Len(report.sources)
    /\ calls' = [base EXCEPT ![s] = Returned(@)]
    /\ UNCHANGED <<currentQuestion, progressUpdates, error>>

\* use-research.ts 446-450: the setState of the catch block, by call s
Fail(s, base, errorMessage) ==
    /\ phase' = "error"
    /\ error' = errorMessage
    /\ calls' = [base EXCEPT ![s] = Returned(@)]
    /\ UNCHANGED <<currentQuestion, progressUpdates, currentReport, conversationHistory,
                   sourcesAnalyzed>>

\* use-research.ts 431-445: the catch block up to its await, or to its end
\* when there is no query to mark as failed; base holds the activations
Catch(s, base, errorMessage) ==
    /\ intervals' = ClearProgress(intervals, progressIntervalRef)
    /\ progressIntervalRef' = 0
    /\ IF user /\ base[s].queryId # 0
       THEN /\ calls' = [Cleared(base, progressIntervalRef) EXCEPT ![s] =
                            [@ EXCEPT !.pc = "updateFailed", !.errorMessage = errorMessage]]
            /\ UNCHANGED state
       ELSE Fail(s, Cleared(base, progressIntervalRef), errorMessage)

\* what the provider did for a request: it was not called, its call failed,
\* it returned no text, or it returned a text
ProviderDid(questionText, outcome) ==
    IF ProviderCalls(JStr(questionText), apiKey) = 0 THEN "notcalled"
    ELSE IF outcome.kind = "error" THEN "error"
    ELSE IF TextLen(outcome.text) = 0 THEN "empty"
    ELSE "text"

\* route.ts 167: the text the provider returned for a request, if any
ProviderText(questionText, outcome) ==
    IF ProviderDid(questionText, outcome) = "text" THEN outcome.text ELSE NoText

\* use-research.ts 368-374: the fetch of call s settles.  It rejects
\* (transport failure), or resolves with the response of the route.
FetchSettles(s) ==
    /\ calls[s].pc = "fetch"
    /\ \/ Catch(s, [calls EXCEPT ![s] = [@ EXCEPT !.fres = FetchRejected]],
                TryOutcome(FetchRejected, calls[s].questionText).message)
       \/ \E outcome \in Outcomes :
              /\ intervals' = ClearProgress(intervals, progressIntervalRef)
              /\ progressIntervalRef' = 0
              /\ calls' = [Cleared(calls, progressIntervalRef) EXCEPT ![s] =
                              [@ EXCEPT !.pc = "json",
                                        !.fres = FetchResolved(POST(JStr(calls[s].questionText),
                                                                    apiKey, outcome)),
                                        !.provider = ProviderDid(calls[s].questionText, outcome),
                                        !.text = ProviderText(calls[s].questionText, outcome)]]
              /\ UNCHANGED state
    /\ UNCHANGED <<currentQueryId, user, apiKey, scenario, preference, request, ncalls, dbStatus, dbReport>>

\* use-research.ts 376-413: response.json() settles; the response is mapped
\* to a report, or an Error is thrown into the catch block
JsonSettles(s) ==
    /\ calls[s].pc = "json"
    /\ LET out == TryOutcome(calls[s].fres, calls[s].questionText)
       IN IF out.ok
          THEN IF user /\ calls[s].queryId # 0
               THEN /\ calls' = [calls EXCEPT ![s] = [@ EXCEPT !.pc = "saveUpdate"]]
                    /\ UNCHANGED <<state, progressIntervalRef, intervals>>
               ELSE /\ Complete(s, calls, out.report)
                    /\ UNCHANGED <<progressIntervalRef, intervals>>
          ELSE Catch(s, calls, out.message)
    /\ UNCHANGED <<currentQueryId, user, apiKey, scenario, preference, request, ncalls, dbStatus, dbReport>>

\* saveToDatabase without its try/catch
SaveToDatabaseRaises_NoCatch(failed) == failed

\* use-research.ts 285-293: the try/catch of saveToDatabase keeps a failed
\* persistence call from raising into startResearch
SaveToDatabaseRaises(failed) == FALSE

\* the end of saveToDatabase in call s: startResearch goes on to its setState
AfterSave(s, failed) ==
    IF SaveToDatabaseRaises(failed)
    THEN Catch(s, calls, JStr("database error"))
    ELSE /\ Complete(s, calls, TryOutcome(calls[s].fres, calls[s].questionText).report)
         /\ UNCHANGED <<progressIntervalRef, intervals>>

\* use-research.ts 287: updateQueryStatus(queryId, 'completed') settles
SaveUpdateSettles(s, ok) ==
    /\ calls[s].pc = "saveUpdate"
    /\ IF ok
       THEN /\ dbStatus' = [dbStatus EXCEPT ![s] = "completed"]
            /\ calls' = [calls EXCEPT ![s] = [@ EXCEPT !.pc = "saveReport"]]
            /\ UNCHANGED <<state, progressIntervalRef, intervals>>
       ELSE /\ AfterSave(s, TRUE)
            /\ UNCHANGED dbStatus
    /\ UNCHANGED <<currentQueryId, user, apiKey, scenario, preference, request, ncalls, dbReport>>

\* database.ts 161-201: what saveResearchReport leaves in the store: nothing
\* when the report insert fails, the report row without citations when the
\* citations insert fails, both otherwise
SaveResults(report) ==
    IF Len(report.sources) > 0 THEN {"none", "report", "full"} ELSE {"none", "full"}

\* use-research.ts 288: saveResearchReport settles
SaveReportSettles(s, result) ==
    /\ calls[s].pc = "saveReport"
    /\ result \in SaveResults(TryOutcome(calls[s].fres, calls[s].questionText).report)
    /\ dbReport' = [dbReport EXCEPT ![s] = result]
    /\ AfterSave(s, result # "full")
    /\ UNCHANGED <<currentQueryId, user, apiKey, scenario, preference, request, ncalls, dbStatus>>

\* use-research.ts 438-450: updateQueryStatus(queryId, 'failed') settles
UpdateFailedSettles(s, ok) ==
    /\ calls[s].pc = "updateFailed"
    /\ dbStatus' = [dbStatus EXCEPT ![s] = IF ok THEN "failed" ELSE @]
    /\ Fail(s, calls, calls[s].errorMessage)
    /\ UNCHANGED <<currentQueryId, progressIntervalRef, intervals, user, apiKey, scenario, preference, request, ncalls,
                   dbReport>>

\* route.ts 103-159: another client posts a request with a question; the
\* route answers 503 without a credential, and chooses the generation
\* parameters otherwise
Request(searchDepth) ==
    /\ scenario = "route"
    /\ request' = IF ~apiKey
                  THEN [status |-> 503, searchDepth |-> searchDepth]
                  ELSE [status |-> 200, searchDepth |-> searchDepth,
                        parameters |-> Parameters(searchDepth)]
    /\ UNCHANGED <<state, currentQueryId, progressIntervalRef, intervals, user, apiKey,
                   scenario, preference, ncalls, calls, dbStatus, dbReport>>

ErrorMessages == {"manual error"}

Next ==
    \/ \E q \in AskedQuestions : StartResearch(q)
    \/ \E q \in AskedQuestions : SubmitFollowUp(q)
    \/ Reset
    \/ \E m \in ErrorMessages : SetError(m)
    \/ \E t \in Calls : Tick(t)
    \/ \E s \in Calls, ok \in BOOLEAN : CreateSettles(s, ok)
    \/ \E s \in Calls, ok \in BOOLEAN : UpdateResearchingSettles(s, ok)
    \/ \E s \in Calls, prefs \in Preferences : PreferencesSettle(s, prefs)
    \/ \E s \in Calls : FetchSettles(s)
    \/ \E s \in Calls : JsonSettles(s)
    \/ \E s \in Calls, ok \in BOOLEAN : SaveUpdateSettles(s, ok)
    \/ \E s \in Calls, result \in {"none", "report", "full"} : SaveReportSettles(s, result)
    \/ \E s \in Calls, ok \in BOOLEAN : UpdateFailedSettles(s, ok)
    \/ \E searchDepth \in DepthValues : Request(searchDepth)

Spec == Init /\ [][Next]_vars

\* the specification in which the provider answers, response bodies arrive
\* and intervals fire; nothing makes a persistence call complete
LiveSpec ==
    /\ Spec
    /\ WF_vars(\E s \in Calls : FetchSettles(s))
    /\ WF_vars(\E s \in Calls : JsonSettles(s))
    /\ WF_vars(\E t \in Calls : Tick(t))

\* the specification in which response bodies arrive, persistence calls
\* settle and intervals fire; nothing makes the provider answer, and the user
\* need not act
TimeoutSpec ==
    /\ Spec
    /\ WF_vars(\E s \in Calls : JsonSettles(s))
    /\ WF_vars(\E t \in Calls : Tick(t))
    /\ WF_vars(\E s \in Calls, ok \in BOOLEAN : CreateSettles(s, ok))
    /\ WF_vars(\E s \in Calls, ok \in BOOLEAN : UpdateResearchingSettles(s, ok))
    /\ WF_vars(\E s \in Calls, prefs \in Preferences : PreferencesSettle(s, prefs))
    /\ WF_vars(\E s \in Calls, ok \in BOOLEAN : SaveUpdateSettles(s, ok))
    /\ WF_vars(\E s \in Calls, result \in {"none", "report", "full"} : SaveReportSettles(s, result))
    /\ WF_vars(\E s \in Calls, ok \in BOOLEAN : UpdateFailedSettles(s, ok))

(***************************************************************************)
(* Claims.                                                                 *)
(***************************************************************************)
\* the places at which an activation handles the result of its provider call
ResultPlaces == {"fetch", "json", "saveUpdate", "saveReport", "updateFailed"}

\* call s takes a step of its own
Steps(s) == calls'[s].pc # calls[s].pc

\* C1: when startResearch(B) overtook call A before A's provider call
\* resolved and B is the current session, no step in which A handles its
\* result changes phase, currentQuestion, progressUpdates, currentReport,
\* conversationHistory, error or sourcesAnalyzed.
C1_StaleResponseImmunity ==
    [][\A s \in Calls :
          (/\ calls[s].overtaken = "start"
           /\ calls[s].pc \in ResultPlaces
           /\ Steps(s)
           /\ currentQuestion.id > s)
          => state' = state]_vars

\* C2: after a reset() made while the session was researching with its
\* provider call in flight, and until research is started again, no step in
\* which that call handles its result changes the session: phase stays idle,
\* progressUpdates and conversationHistory empty, currentReport and error null.
C2_ResetDiscardsLateResponse ==
    [][\A s \in Calls :
          (/\ calls[s].overtaken = "reset"
           /\ currentQuestion = NoQuestion
           /\ calls[s].pc \in ResultPlaces
           /\ Steps(s))
          => /\ state' = state
             /\ phase' = "idle"
             /\ progressUpdates' = <<>>
             /\ currentReport' = NoReport
             /\ error' = JNull
             /\ conversationHistory' = <<>>]_vars

\* C3: after reset() has returned and until research is started again, no
\* step appends a progress update.
C3_CancellationCompleteness ==
    [][(currentQuestion = NoQuestion /\ currentQuestion' = NoQuestion)
          => Len(progressUpdates') <= Len(progressUpdates)]_vars

\* C4: the phase changes only along idle->researching, researching->completed,
\* researching->error, completed->researching, error->researching, and to
\* idle.
LegalEdges ==
    {<<"idle", "researching">>, <<"researching", "completed">>,
     <<"researching", "error">>, <<"completed", "researching">>,
     <<"error", "researching">>}
        \cup {<<p, "idle">> : p \in {"researching", "completed", "error"}}

C4_PhaseLegality == [][phase' # phase => <<phase, phase'>> \in LegalEdges]_vars

\* C5: for every non-empty provider text, the route answers with a report
\* in which every field is present, and does not take its error path.
ReportFields ==
    {"id", "title", "summary", "findings", "sources", "keyStatistics", "knowledgeGaps",
     "followUpQuestions", "qualityScore", "generatedAt"}

C5_NormalizerTotality ==
    \A s \in Calls :
        (calls[s].pc = "json" /\ calls[s].provider = "text")
        => /\ calls[s].fres.response.status = 200
           /\ LET report == Prop(calls[s].fres.response.body, "report")
              IN \A k \in ReportFields : Prop(report, k) # JUndef

\* C6: a call for which the provider returned a non-empty text ends by
\* setting phase completed, never error.
C6_MalformedNeverError ==
    [][\A s \in Calls :
          (calls[s].provider = "text" /\ calls[s].pc # "done" /\ calls'[s].pc = "done")
          => phase' = "completed"]_vars

\* C7: the sources of currentReport carry the ids 1..N in order.
C7_SourceIdDensity ==
    currentReport # NoReport
    => \A i \in 1..Len(currentReport.sources) : currentReport.sources[i].id = JNum(i)

\* a report of three sources is current: the provider gave them the ids 7, 7
\* and "x"
C7_Witness == currentReport # NoReport /\ Len(currentReport.sources) = 3

\* C8: once the provider result of the current session has arrived and the
\* phase is completed or error, no step other than a new startResearch
\* appends a progress update.
C8_NoProgressAfterResult ==
    [][(/\ phase \in {"completed", "error"}
        /\ currentQuestion.id \in Calls
        /\ calls[currentQuestion.id].pc \notin PreResolve
        /\ ncalls' = ncalls)
          => Len(progressUpdates') <= Len(progressUpdates)]_vars

\* C9: the setState that ends a call sets the phase and the error that the
\* fetch result alone determines, whatever the persistence calls did:
\* completed, error untouched, when a report was built from the response,
\* and error with the message of the failure otherwise.
C9_PersistenceNeverDecides ==
    [][\A s \in Calls :
          (calls[s].pc \in ResultPlaces /\ calls'[s].pc = "done")
          => LET f == IF calls[s].pc = "fetch" THEN FetchRejected ELSE calls[s].fres
                 out == TryOutcome(f, calls[s].questionText)
             IN /\ phase' = IF out.ok THEN "completed" ELSE "error"
                /\ error' = IF out.ok THEN error ELSE out.message]_vars

\* the call of the current session has ended in phase completed although
\* the store holds its query as completed without a report: saving failed
C9_Witness ==
    \E s \in Calls :
        /\ calls[s].pc = "done"
        /\ currentQuestion.id = s
        /\ phase = "completed"
        /\ dbStatus[s] = "completed"
        /\ dbReport[s] = "none"

\* C10: a call that waits for createResearchQuery goes on to issue its
\* provider call even if no persistence call ever completes.
C10_PersistenceNeverBlocks ==
    \A s \in Calls : (calls[s].pc = "create") ~> (calls[s].pc \notin PreResolve \/ calls[s].pc = "fetch")

\* the message of the route when GEMINI_API_KEY is not set
NotConfiguredMessage == JStr("Please add GEMINI_API_KEY to your .env.local file")

\* C11: without a provider credential the provider is never called, and a
\* call for a non-blank question to which the route has answered ends by
\* setting phase error with the message that names the missing key.
C11_NoCredential ==
    /\ [](~apiKey => \A s \in Calls : calls[s].provider \in {"none", "notcalled"})
    /\ [][\A s \in Calls :
             (/\ ~apiKey
              /\ ~IsBlank(calls[s].questionText)
              /\ calls[s].pc \in {"json", "updateFailed"}
              /\ ~calls[s].fres.rejected
              /\ calls'[s].pc = "done")
             => /\ phase' = "error"
                /\ error' = NotConfiguredMessage
                /\ calls[s].provider = "notcalled"]_vars

\* the call of the current session has ended in phase error with the
\* message of the missing key
C11_Witness ==
    \E s \in Calls :
        /\ ~apiKey
        /\ currentQuestion = [id |-> s, text |-> "Topic A"]
        /\ calls[s].pc = "done"
        /\ phase = "error"
        /\ error = NotConfiguredMessage

\* C12: a startResearch call with an empty or white-space-only question
\* changes none of phase, currentQuestion, progressUpdates, currentReport,
\* error, conversationHistory and sourcesAnalyzed, and starts no interval.
C12_BlankQuestionRejected ==
    [][(ncalls' # ncalls /\ IsBlank(calls'[ncalls'].questionText))
          => (state' = state /\ intervals' = intervals)]_vars

\* C13: the route calls the provider for no request whose question is empty
\* or white space only.
C13_NoProviderCallForBlank ==
    \A s \in Calls :
        IsBlank(calls[s].questionText) => calls[s].provider \in {"none", "notcalled"}

\* C14: the route calls the provider at most once for a request, and once
\* when the question is not blank and the credential is set; a call issues
\* its fetch once, and a call that ends starts no other call.
C14_SingleAttempt ==
    /\ [](\A s \in Calls :
             calls[s].pc = "json"
             => LET n == ProviderCalls(JStr(calls[s].questionText), apiKey)
                IN /\ n <= 1
                   /\ (~IsBlank(calls[s].questionText) /\ apiKey) => n = 1
                   /\ n = 0 <=> calls[s].provider = "notcalled")
    /\ [][\A s \in Calls :
             /\ (calls'[s].pc = "fetch" /\ calls[s].pc # "fetch")
                   => calls[s].pc \in {"idle", "create", "updateResearching", "preferences"}
             /\ (calls[s].pc # "done" /\ calls'[s].pc = "done")
                   => (ncalls' = ncalls /\ \A t \in Calls \ {s} : calls'[t].pc = calls[t].pc)]_vars

\* the only call made has ended in phase error after the provider call failed
C14_Witness ==
    /\ ncalls = 1
    /\ calls[1].pc = "done"
    /\ phase = "error"
    /\ error = JStr("provider error")

\* call s ends in this step
Ends(s) == calls[s].pc # "done" /\ calls'[s].pc = "done"

\* the first n characters of text x, or all of it
FirstChars(x, n) == JText(x, IF TextLen(x) < n THEN TextLen(x) ELSE n)

\* the report of the route for call s, and the fallback it is when made of
\* the text x
RouteReport(s) == Prop(calls[s].fres.response.body, "report")

IsFallbackOf(report, x) ==
    /\ Prop(report, "title") = JStr("Research Findings")
    /\ Prop(report, "summary") = FirstChars(x, 500)
    /\ Prop(report, "findings") =
           JArr(<<JObj([heading |-> JStr("Analysis"), content |-> JText(x, TextLen(x))])>>)
    /\ Prop(report, "sources") = EmptyArr
    /\ Prop(report, "knowledgeGaps") = EmptyArr
    /\ Prop(report, "qualityScore") = JNum(70)

\* the provider text of call s, cleaned, is not a JSON document
TakesFallback(s) == calls[s].provider = "text" /\ ParseThrows(CleanResponse(calls[s].text))

\* C15 as claimed: for every provider text that is not a JSON document the
\* report of the route has the title Research Findings, one finding headed
\* Analysis whose content is the entire provider text, no sources, no
\* knowledgeGaps, the first 500 characters of the provider text as summary
\* and qualityScore 0.7.
C15_FallbackOfProviderText ==
    \A s \in Calls :
        (calls[s].pc = "json" /\ TakesFallback(s))
        => IsFallbackOf(RouteReport(s), calls[s].text)

\* C15 amended: for every provider text that, trimmed and with its fence
\* markers removed, is not a JSON document, the report of the route is the
\* fallback made of that cleaned text: one finding headed Analysis whose
\* content is the cleaned text, its first 500 characters as summary, no
\* sources, no knowledgeGaps, qualityScore 0.7; and the call ends by setting
\* phase completed with a report of that one section and no sources.
C15_FallbackOfCleanedText ==
    /\ [](\A s \in Calls :
             (calls[s].pc = "json" /\ TakesFallback(s))
             => /\ calls[s].fres.response.status = 200
                /\ IsFallbackOf(RouteReport(s), CleanResponse(calls[s].text)))
    /\ [][\A s \in Calls :
             (TakesFallback(s) /\ Ends(s))
             => LET x == CleanResponse(calls[s].text)
                IN /\ phase' = "completed"
                   /\ Len(currentReport'.sections) = 1
                   /\ currentReport'.sections[1].title = JStr("Analysis")
                   /\ currentReport'.sections[1].content = JText(x, TextLen(x))
                   /\ currentReport'.executiveSummary = FirstChars(x, 500)
                   /\ currentReport'.sources = <<>>
                   /\ currentReport'.knowledgeGaps = EmptyArr]_vars

\* the route has answered a call whose provider text is prose of more than
\* 500 characters inside a code fence
C15_Witness ==
    \E s \in Calls :
        /\ calls[s].pc = "json"
        /\ TakesFallback(s)
        /\ calls[s].text.pre # <<>>
        /\ calls[s].text.body.len > 500
        /\ calls[s].fres.response.status = 200

\* the parsed document of a provider text that, cleaned, is a JSON object
\* whose findings and sources are lists of objects (or absent)
Document(s) == CleanResponse(calls[s].text).body.val
Findings(v) == Or(Prop(v, "findings"), EmptyArr)
Sources(v) == Or(Prop(v, "sources"), EmptyArr)
IsObjects(list) == list.t = "arr" /\ \A i \in 1..Len(list.arr) : list.arr[i].t = "obj"
WellFormed(s) ==
    /\ calls[s].provider = "text"
    /\ ~ParseThrows(CleanResponse(calls[s].text))
    /\ Document(s).t = "obj"
    /\ IsObjects(Findings(Document(s)))
    /\ IsObjects(Sources(Document(s)))

\* C16: a call whose provider text is a well-formed JSON object with m
\* findings and n sources ends by setting phase completed and a currentReport
\* of m sections, each with the heading and the content of the finding at
\* its index, and n sources, each with the title of the source at its index
\* and the id that is its index.
C16_WellFormedReport ==
    [][\A s \in Calls :
          (WellFormed(s) /\ Ends(s))
          => LET fs == Findings(Document(s)).arr
                 ss == Sources(Document(s)).arr
                 r == currentReport'
             IN /\ phase' = "completed"
                /\ Len(r.sections) = Len(fs)
                /\ \A i \in 1..Len(fs) :
                       /\ r.sections[i].title = Prop(fs[i], "heading")
                       /\ r.sections[i].content = Prop(fs[i], "content")
                /\ Len(r.sources) = Len(ss)
                /\ \A i \in 1..Len(ss) :
                       /\ r.sources[i].id = JNum(i)
                       /\ r.sources[i].title = Or(Prop(ss[i], "title"), JTmpl("Source ", i))]_vars

\* a report of two sections and three sources is current in phase completed
C16_Witness ==
    /\ phase = "completed"
    /\ currentReport # NoReport
    /\ Len(currentReport.sections) = 2
    /\ currentReport.sections[2].title = JStr("H2")
    /\ Len(currentReport.sources) = 3

\* the ids of the entries of a history increase
InSubmissionOrder(h) == \A i, j \in 1..Len(h) : i < j => h[i].id < h[j].id

\* C17: a call that ends in phase completed appends one entry to
\* conversationHistory, after the entries of the researches that completed
\* before it, so that researches completing one after another leave their
\* entries in submission order; a call that ends in phase error, and
\* startResearch and submitFollowUp, leave conversationHistory unchanged.
C17_HistoryAccumulates ==
    [][/\ ncalls' # ncalls => conversationHistory' = conversationHistory
       /\ \A s \in Calls :
             /\ (Ends(s) /\ phase' = "error") => conversationHistory' = conversationHistory
             /\ (Ends(s) /\ phase' = "completed")
                   => /\ conversationHistory' =
                            Append(conversationHistory,
                                   [id |-> s, question |-> currentQuestion, report |-> currentReport'])
                      /\ (/\ s = ncalls
                          /\ \A t \in 1..(s - 1) : calls[t].pc = "done"
                          /\ InSubmissionOrder(conversationHistory))
                            => InSubmissionOrder(conversationHistory')]_vars

\* two researches have completed one after the other: the history holds the
\* entry of the first, then that of the follow-up
C17_Witness ==
    /\ phase = "completed"
    /\ Len(conversationHistory) = 2
    /\ conversationHistory[1].id = 1
    /\ conversationHistory[1].question.id = 1
    /\ conversationHistory[2].id = 2
    /\ conversationHistory[2].question.id = 2

\* use-research.ts 231-239
initialState == <<"idle", NoQuestion, <<>>, NoReport, <<>>, JNull, 0>>

\* C18: the state right after reset() is the initial state, and no
\* interval is live.
C18_ResetRestoresInitial ==
    [][Reset => (state' = initialState /\ intervals' = {})]_vars

\* C19: when the provider call of the current session fails, the call ends
\* with the interval of the session stopped, phase error, error the message
\* of the failure, currentReport null, and, for a stored query, after the
\* update of its status to failed has settled.
C19_ProviderFailure ==
    [][\A s \in Calls :
          LET f == IF calls[s].pc = "fetch" THEN FetchRejected ELSE calls[s].fres
              out == TryOutcome(f, calls[s].questionText)
          IN (/\ currentQuestion.id = s
              /\ phase = "researching"
              /\ calls[s].pc \in ResultPlaces
              /\ ~out.ok
              /\ Ends(s))
             => /\ phase' = "error"
                /\ error' = out.message
                /\ error' # JNull
                /\ currentReport' = NoReport
                /\ s \notin intervals'
                /\ (user /\ calls[s].queryId # 0) => calls[s].pc = "updateFailed"]_vars

\* C20: a current session whose request, with a question that is not blank
\* and the credential set, is in flight leaves phase researching for phase
\* error even if the provider never answers and the user does nothing.
C20_ProviderTimeout ==
    \A s \in Calls :
        (/\ calls[s].pc = "fetch"
         /\ ~IsBlank(calls[s].questionText)
         /\ apiKey
         /\ currentQuestion.id = s
         /\ phase = "researching")
            ~> (phase = "error" \/ currentQuestion.id # s)

\* C21: once startResearch has been called again, no progress update made by
\* the showProgress of an earlier call is appended to progressUpdates.
C21_PreviousSchedulerCancelled ==
    [][Len(progressUpdates') > Len(progressUpdates)
          => progressUpdates'[Len(progressUpdates')].id[1] >= ncalls']_vars

\* C22: when the provider answers, a session in phase researching, whose
\* question is not blank, reaches phase completed or phase error unless
\* reset or a newer startResearch ends it.
C22_SessionTerminates ==
    \A s \in Calls :
        (currentQuestion.id = s /\ ~IsBlank(currentQuestion.text) /\ phase = "researching")
            ~> (phase \in {"completed", "error"} \/ currentQuestion.id # s)

\* C23: progressUpdates is a prefix of progressSteps, message by message and
\* type by type, and holds the first step whenever the phase is researching
\* (for a question that is not blank).
C23_ProgressIsPrefix ==
    /\ Len(progressUpdates) <= Len(progressSteps)
    /\ \A i \in 1..Len(progressUpdates) :
          i <= Len(progressSteps)
          => /\ progressUpdates[i].message = progressSteps[i].message
             /\ progressUpdates[i].type = progressSteps[i].type
    /\ (phase = "researching" /\ ~IsBlank(currentQuestion.text)) => Len(progressUpdates) >= 1

\* C24: the qualityScore of every report of the route is a number of [0,1]
\* (kept in hundredths): 0.7 on the fallback path, 0.75 when the parsed
\* document has none, and the value of the document when that is in range,
\* 0 included.
C24_QualityScoreInRange ==
    \A s \in Calls :
        (calls[s].pc = "json" /\ calls[s].provider = "text" /\ calls[s].fres.response.status = 200)
        => LET q == Prop(RouteReport(s), "qualityScore")
               given == Prop(CleanResponse(calls[s].text).body.val, "qualityScore")
           IN /\ q.t = "num"
              /\ q.num >= 0
              /\ q.num <= 100
              /\ TakesFallback(s) => q = JNum(70)
              /\ (~TakesFallback(s) /\ given = JUndef) => q = JNum(75)
              /\ (~TakesFallback(s) /\ given.t = "num" /\ given.num >= 0 /\ given.num <= 100)
                    => q = given

\* JSON.stringify of a value: properties that are undefined are left out,
\* elements that are undefined become null
RECURSIVE Stringify(_)
Stringify(v) ==
    CASE v.t = "obj" ->
            JObj([k \in {k \in DOMAIN v.obj : v.obj[k] # JUndef} |-> Stringify(v.obj[k])])
      [] v.t = "arr" ->
            JArr([i \in 1..Len(v.arr) |->
                     IF v.arr[i] = JUndef THEN JNull ELSE Stringify(v.arr[i])])
      [] OTHER -> v

\* a report written back as a provider text
Serialise(report) == Text(<<>>, [kind |-> "json", len |-> 40, val |-> Stringify(report)], <<>>)

\* C25: a report of the route, written back as JSON and put through the
\* cleaning, the parsing and the defaulting of the route again, comes out
\* with the same title, summary, findings, sources, keyStatistics,
\* knowledgeGaps, followUpQuestions and qualityScore.
C25_NormalizationIdempotent ==
    \A s \in Calls :
        (calls[s].pc = "json" /\ calls[s].provider = "text" /\ calls[s].fres.response.status = 200)
        => LET again == ResearchData(CleanResponse(Serialise(RouteReport(s))))
           IN /\ ~NormalizeThrows(again)
              /\ \A k \in ReportFields \ {"id", "generatedAt"} :
                    Prop(NormalizeReport(again), k) = Prop(RouteReport(s), k)

\* the route has answered with a report of three sources, two of which got
\* their type by default
C25_Witness ==
    \E s \in Calls :
        /\ calls[s].pc = "json"
        /\ calls[s].fres.response.status = 200
        /\ WellFormed(s)
        /\ Len(Prop(RouteReport(s), "sources").arr) = 3
        /\ Prop(Prop(RouteReport(s), "sources").arr[1], "type") = JStr("news")

\* the entries of a list that are numbers
IsNumber(e) == e.t = "num"
Numeric(list) == JArr(SelectSeq(list.arr, IsNumber))

\* C26: the citations of every section of the report of a call are the
\* numeric entries of the citations of its finding, in order; entries that
\* are not numbers are dropped, entries beyond the source ids are kept.
C26_CitationsNumeric ==
    [][\A s \in Calls :
          (WellFormed(s) /\ Ends(s) /\ phase' = "completed")
          => LET fs == Findings(Document(s)).arr
             IN \A i \in 1..Len(fs) :
                    currentReport'.sections[i].citations =
                        Numeric(Or(Prop(fs[i], "citations"), EmptyArr))]_vars

\* the three depths
Depths == {"quick", "standard", "comprehensive"}

\* C27: the route chooses the parameters of the requested depth when it is
\* quick, standard or comprehensive, and those of standard for every other
\* searchDepth value, a missing one included.
C27_DepthParameters ==
    request.status = 200
    => LET d == request.searchDepth
           name == IF d.t = "str" /\ d.str \in Depths THEN d.str ELSE "standard"
       IN request.parameters =
              [model |-> modelConfig[name].model,
               maxOutputTokens |-> modelConfig[name].maxTokens,
               findings |-> depthConfigs[name].findings,
               sources |-> depthConfigs[name].sources]

\* C28: while the phase is researching, an appended update of type analyze
\* carries the session's sourcesAnalyzed raised by 2, 3 or 4, an update of
\* another type carries it unchanged, and sourcesAnalyzed becomes the value
\* the update carries.
C28_SourcesCounter ==
    [][LET started == ncalls' # ncalls
           appended == IF started THEN Len(progressUpdates') = 1
                       ELSE Len(progressUpdates') = Len(progressUpdates) + 1
           before == IF started THEN 0 ELSE sourcesAnalyzed
           e == progressUpdates'[Len(progressUpdates')]
       IN (appended /\ phase' = "researching")
          => /\ e.type = "analyze" => (e.sourcesAnalyzed - before) \in 2..4
             /\ e.type # "analyze" => e.sourcesAnalyzed = before
             /\ sourcesAnalyzed' = e.sourcesAnalyzed]_vars

\* C29 as claimed: startResearch with a question that is not blank sets
\* phase researching and currentQuestion, empties progressUpdates, sets
\* currentReport and error to null and sourcesAnalyzed to 0, and leaves
\* conversationHistory unchanged.
C29_StartResearchFrame ==
    [][(ncalls' # ncalls /\ ~IsBlank(calls'[ncalls'].questionText))
          => /\ phase' = "researching"
             /\ currentQuestion' = [id |-> ncalls', text |-> calls'[ncalls'].questionText]
             /\ progressUpdates' = <<>>
             /\ currentReport' = NoReport
             /\ error' = JNull
             /\ sourcesAnalyzed' = 0
             /\ conversationHistory' = conversationHistory]_vars

\* C29 amended: startResearch with a question that is not blank sets phase
\* researching and currentQuestion, sets currentReport and error to null,
\* leaves conversationHistory unchanged, and replaces progressUpdates and
\* sourcesAnalyzed by nothing and 0 for a signed-in user, whose persistence
\* calls are awaited first, and otherwise by the first step of the new call
\* and the count that step carries.
C29_StartResearchFrameFirstStep ==
    [][(ncalls' # ncalls /\ ~IsBlank(calls'[ncalls'].questionText))
          => /\ phase' = "researching"
             /\ currentQuestion' = [id |-> ncalls', text |-> calls'[ncalls'].questionText]
             /\ currentReport' = NoReport
             /\ error' = JNull
             /\ conversationHistory' = conversationHistory
             /\ user => (progressUpdates' = <<>> /\ sourcesAnalyzed' = 0)
             /\ ~user => /\ Len(progressUpdates') = 1
                         /\ progressUpdates'[1].id = <<ncalls', 1>>
                         /\ progressUpdates'[1].message = progressSteps[1].message
                         /\ sourcesAnalyzed' = progressUpdates'[1].sourcesAnalyzed]_vars

\* a follow-up has been started from a session that ended: the history
\* holds the entry of the first research, the new call has not gone beyond
\* its provider call
C29_Witness ==
    /\ ncalls = 2
    /\ currentQuestion.id = 2
    /\ phase = "researching"
    /\ calls[1].pc = "done"
    /\ calls[2].pc \in {"create", "fetch"}
    /\ Len(conversationHistory) = 1
    /\ currentReport = NoReport
    /\ error = JNull

\* types.ts: the type of a Source
SourceTypes == {JStr("article"), JStr("report"), JStr("paper"), JStr("news"), JStr("company")}

\* C30: every source of currentReport and of every report of
\* conversationHistory has a type among article, report, paper, news, company.
C30_SourceTypes ==
    /\ currentReport # NoReport
          => \A i \in 1..Len(currentReport.sources) : currentReport.sources[i].type \in SourceTypes
    /\ \A n \in 1..Len(conversationHistory) :
          \A i \in 1..Len(conversationHistory[n].report.sources) :
              conversationHistory[n].report.sources[i].type \in SourceTypes

\* a provider text that is a JSON object between a leading fence marker,
\* followed by a language tag or none, and a trailing fence marker, with
\* white space around the markers
AfterFence(x) == SubSeq(Trim(x).pre, Len(Fence) + 1, Len(Trim(x).pre))
BeforeFence(x) == SubSeq(Trim(x).post, 1, Len(Trim(x).post) - Len(Fence))
IsWrapped(x) ==
    /\ x.body.kind = "json"
    /\ x.body.val.t = "obj"
    /\ StartsWith(Trim(x), Fence)
    /\ EndsWith(Trim(x), Fence)
    /\ TrimEndSeq(BeforeFence(x)) = <<>>

\* the language tag of a wrapped text: the characters after the leading
\* marker up to the white space
RECURSIVE UpToSpace(_)
UpToSpace(chars) ==
    IF chars = <<>> \/ IsSpace(Head(chars)) THEN <<>>
    ELSE <<Head(chars)>> \o UpToSpace(Tail(chars))
LanguageTag(x) == UpToSpace(AfterFence(x))

\* the answer of the route to the same request when the provider returns
\* the JSON object of text x alone
AnswerToBare(s) ==
    POST(JStr(calls[s].questionText), apiKey,
         ProviderReturns(Text(<<>>, calls[s].text.body, <<>>)))

\* C31 as claimed: for a provider text that is a JSON object wrapped in
\* fence markers, with any language tag or none, the route answers with the
\* report it answers with for the object alone, not with the fallback.
C31_FenceAnyTag ==
    \A s \in Calls :
        (calls[s].pc = "json" /\ calls[s].provider = "text" /\ IsWrapped(calls[s].text))
        => /\ ~TakesFallback(s)
           /\ calls[s].fres.response = AnswerToBare(s)

\* C31 amended: for a provider text that is a JSON object wrapped in fence
\* markers, with the language tag json or none, the route answers with the
\* report it answers with for the object alone, not with the fallback.
C31_FenceJsonTagOrNone ==
    \A s \in Calls :
        (/\ calls[s].pc = "json"
         /\ calls[s].provider = "text"
         /\ IsWrapped(calls[s].text)
         /\ LanguageTag(calls[s].text) \in {<<>>, <<"j", "s", "o", "n">>})
        => /\ ~TakesFallback(s)
           /\ calls[s].fres.response = AnswerToBare(s)

\* the route has answered with a report for a JSON object wrapped in
\* markers without a tag, with white space before and after them
C31_Witness ==
    \E s \in Calls :
        /\ calls[s].pc = "json"
        /\ calls[s].provider = "text"
        /\ IsWrapped(calls[s].text)
        /\ LanguageTag(calls[s].text) = <<>>
        /\ calls[s].text.pre[1] = " "
        /\ calls[s].fres.response.status = 200
        /\ Len(Prop(RouteReport(s), "sources").arr) = 3

\* C32: every entry of conversationHistory has a question, and its report
\* is the report for the text of that question.
C32_EntryPairsQuestionAndReport ==
    \A n \in 1..Len(conversationHistory) :
        /\ conversationHistory[n].question # NoQuestion
        /\ conversationHistory[n].report.question = conversationHistory[n].question.text

\* C33: currentReport is non-null exactly in phase completed, error is
\* non-null exactly in phase error, currentQuestion is non-null outside
\* phase idle, and in phase idle progressUpdates is empty and
\* sourcesAnalyzed is 0.
C33_FieldsAgreeWithPhase ==
    /\ currentReport # NoReport <=> phase = "completed"
    /\ error # JNull <=> phase = "error"
    /\ phase # "idle" => currentQuestion # NoQuestion
    /\ phase = "idle" => (progressUpdates = <<>> /\ sourcesAnalyzed = 0)

\* C34: at most one interval is live, and none is in phase completed,
\* error or idle.
C34_OneTimerAndNoneAtRest ==
    /\ Cardinality(intervals) <= 1
    /\ phase \in {"completed", "error", "idle"} => intervals = {}

\* C35: once saveToDatabase has run for a call and the call has ended, a
\* query whose status is completed has a report in the store.
C35_CompletedHasReport ==
    \A s \in Calls :
        (calls[s].pc = "done" /\ dbStatus[s] = "completed") => dbReport[s] # "none"

\* C36: for a call that reset or a newer startResearch overtook before its
\* provider call resolved, no report is stored and the status of its query
\* is set to neither completed nor failed.
C36_AbandonedWritesStop ==
    [][\A s \in Calls :
          calls[s].overtaken # ""
          => /\ dbReport'[s] = dbReport[s]
             /\ dbStatus'[s] # dbStatus[s] => dbStatus'[s] \notin {"completed", "failed"}]_vars

\* C37: saveResearchReport leaves in the store either nothing, when it
\* raises, or the report with one citation per source, when it returns.
C37_SaveAllOrNothing ==
    [][\A s \in Calls :
          (calls[s].pc = "saveReport" /\ calls'[s].pc # "saveReport")
          => dbReport'[s] \in {"none", "full"}]_vars

\* the depth of the stored preference, standard when no row is stored
StoredDepth == IF preference = "none" THEN "standard" ELSE preference

\* C38: the searchDepth a call sends with its fetch is the stored
\* default_search_depth of the signed-in user, also when createResearchQuery
\* or updateQueryStatus failed (it may be standard when reading the
\* preferences itself failed), and standard when no user is signed in.
C38_DepthIsPreference ==
    [][\A s \in Calls :
          (calls[s].pc # "fetch" /\ calls'[s].pc = "fetch")
          => IF user
             THEN \/ calls'[s].searchDepth = StoredDepth
                  \/ calls[s].pc = "preferences" /\ calls'[s].searchDepth = "standard"
             ELSE calls'[s].searchDepth = "standard"]_vars

====
